---- MODULE Spec2Model ----
(***************************************************************************)
(* Model of the Salesforce tool handlers: the DML handler in its two       *)
(* variants, the guided case-creation flow, the line-oriented prompt, and  *)
(* the single-purpose search / picklist / create handlers.                 *)
(*                                                                         *)
(* One handler invocation runs at a time.  Every `await` of the source is  *)
(* a position (pc) of the invocation: a prompt waiting for a line of       *)
(* input, or a remote call waiting to resolve or reject.  An action is     *)
(* the arrival of that line or that response, together with all the code   *)
(* that runs up to the next await.                                         *)
(***************************************************************************)
EXTENDS Integers, Sequences, FiniteSets, TLC

\* ---------------------------------------------------------------- bounds
\* Largest number of records a find() returns and of values in a picklist.
MaxChoices == 2
\* Largest number of records a caller passes to the DML handler.
MaxRecords == 2
\* Number of guided flows started side by side.
NumFlows == 2

\* ------------------------------------------------- text (char sequences)
\* Text is a sequence of one-character strings, so that trim, parseInt and
\* toLowerCase are computed and not assumed.
Digits == <<"0", "1", "2", "3", "4", "5", "6", "7", "8", "9">>

DigitSet == {Digits[i] : i \in 1..Len(Digits)}

DigitChar(i) == Digits[i + 1]

DigitVal(c) == (CHOOSE i \in 1..Len(Digits) : Digits[i] = c) - 1

WhiteSpace == {" ", "\n", "\t", "\r"}

RECURSIVE StripLeft(_)
StripLeft(s) ==
  IF s # <<>> /\ Head(s) \in WhiteSpace THEN StripLeft(Tail(s)) ELSE s

RECURSIVE StripRight(_)
StripRight(s) ==
  IF s # <<>> /\ s[Len(s)] \in WhiteSpace
  THEN StripRight(SubSeq(s, 1, Len(s) - 1))
  ELSE s

\* String.prototype.trim
Trim(s) == StripRight(StripLeft(s))

LowerOf(c) ==
  CASE c = "Y" -> "y"
    [] c = "N" -> "n"
    [] c = "E" -> "e"
    [] c = "S" -> "s"
    [] c = "T" -> "t"
    [] c = "R" -> "r"
    [] c = "U" -> "u"
    [] c = "X" -> "x"
    [] c = "A" -> "a"
    [] c = "B" -> "b"
    [] OTHER -> c

\* String.prototype.toLowerCase
ToLowerCase(s) == [i \in 1..Len(s) |-> LowerOf(s[i])]

RECURSIVE DigitPrefix(_)
DigitPrefix(s) ==
  IF s # <<>> /\ Head(s) \in DigitSet
  THEN <<Head(s)>> \o DigitPrefix(Tail(s))
  ELSE <<>>

RECURSIVE DecimalValue(_)
DecimalValue(d) ==
  IF d = <<>> THEN 0
  ELSE 10 * DecimalValue(SubSeq(d, 1, Len(d) - 1)) + DigitVal(d[Len(d)])

\* A JavaScript number that is either NaN or an integer.
NaN == [nan |-> TRUE, val |-> 0]

Num(n) == [nan |-> FALSE, val |-> n]

isNaN(x) == x.nan

\* parseInt(s, 10): leading white space skipped, an optional sign, then the
\* longest run of digits; NaN when there is no digit.
ParseInt(s) ==
  LET t == StripLeft(s)
      signed == t # <<>> /\ Head(t) \in {"+", "-"}
      u == IF signed THEN Tail(t) ELSE t
      d == DigitPrefix(u)
  IN  IF d = <<>> THEN NaN
      ELSE IF signed /\ Head(t) = "-" THEN Num(0 - DecimalValue(d))
      ELSE Num(DecimalValue(d))

\* parseFloat(s), on the inputs of this model (no fraction, no exponent).
ParseFloat(s) == ParseInt(s)

\* The increasing sequence of the elements of a finite set of integers.
RECURSIVE SortedSeq(_)
SortedSeq(S) ==
  IF S = {} THEN <<>>
  ELSE LET m == CHOOSE x \in S : \A y \in S : x <= y
       IN  <<m>> \o SortedSeq(S \ {m})

\* ------------------------------------------------------- remote CRM data
\* The value of an absent property or argument.
Undefined == "<undefined>"

Id(object, i) == <<object, i>>

\* The value of an absent id.
NoId == <<>>

\* The Id/Name records a find() on `object` resolves with, n of them.
Found(object, n) == [i \in 1..n |-> [Id |-> Id(object, i), Name |-> <<"Name", object, i>>]]

\* The first n entries of a picklist: (label, value, defaultValue) tuples in
\* schema order; the last one is the default.
PicklistOf(field, n) ==
  [i \in 1..n |-> [label |-> <<"Label", field, i>>,
                   value |-> <<field, i>>,
                   defaultValue |-> (i = n)]]

\* A field descriptor of describe().fields.
Field(name, type, required, picklistValues, referenceTo) ==
  [name |-> name, label |-> <<"Label", name>>, type |-> type,
   nillable |-> ~required, defaultedOnCreate |-> FALSE, createable |-> TRUE,
   picklistValues |-> picklistValues, referenceTo |-> referenceTo]

\* Case schemas the remote describe() may resolve with.
SchemaStandard ==
  << Field("CaseNumber", "string", TRUE, <<>>, <<>>),
     Field("AccountId", "reference", FALSE, <<>>, <<"Account">>),
     Field("ContactId", "reference", FALSE, <<>>, <<"Contact">>),
     Field("Subject", "string", FALSE, <<>>, <<>>),
     Field("Origin", "picklist", TRUE, PicklistOf("Origin", MaxChoices), <<>>),
     Field("Status", "picklist", TRUE, PicklistOf("Status", 1), <<>>),
     Field("Priority", "picklist", FALSE, PicklistOf("Priority", 1), <<>>) >>

SchemaCustom ==
  << Field("Subject", "string", TRUE, <<>>, <<>>),
     Field("Status", "picklist", TRUE, <<>>, <<>>),
     Field("Product__c", "picklist", TRUE, PicklistOf("Product__c", MaxChoices), <<>>),
     Field("AssetId", "reference", TRUE, <<>>, <<"Asset">>) >>

SchemaScalar ==
  << Field("CaseNumber", "string", TRUE, <<>>, <<>>),
     Field("IsEscalated", "boolean", TRUE, <<>>, <<>>),
     Field("Amount__c", "double", TRUE, <<>>, <<>>),
     Field("Due__c", "date", TRUE, <<>>, <<>>),
     Field("Comments", "textarea", FALSE, <<>>, <<>>) >>

Schemas == {SchemaStandard, SchemaCustom, SchemaScalar}

\* ------------------------------------------------------------- user input
\* What the user types is delivered as one chunk of stdin data, with its
\* line terminator.
Typed(s) == s \o <<"\n">>

SelectionLines ==
  {Typed(<<DigitChar(i)>>) : i \in 0..(MaxChoices + 1)}
    \cup {Typed(<<>>), Typed(<<"x">>)}

TextLines == {Typed(<<>>), Typed(<<" ", "a">>)}

ScalarLines == {Typed(<<"T", "R", "U", "E">>), Typed(<<"7">>), Typed(<<>>)}

ConfirmLines ==
  {Typed(<<"y">>), Typed(<<"Y">>), Typed(<<"y", "e", "s">>), Typed(<<"n">>),
   Typed(<<>>)}

\* -------------------------------------------------------- caller arguments
Operations == {"insert", "update", "delete", "upsert", "merge"}

ObjectNames == {"Case", "Account"}

ExternalIdFields == {Undefined, "", "Ext__c"}

\* The records a caller passes: n of them, each carrying an Id.
CallerRecords(n) == [i \in 1..n |-> [Id |-> Id("Rec", i), Subject |-> <<"caller", i>>]]

\* The argument objects of the DML handler; externalIdField is passed
\* (or forgotten, or left empty) with upsert only.
DMLArgs ==
  [operation : Operations \ {"upsert"}, objectName : ObjectNames,
   records : {CallerRecords(n) : n \in 0..MaxRecords},
   externalIdField : {Undefined}]
    \cup [operation : {"upsert"}, objectName : ObjectNames,
         records : {CallerRecords(n) : n \in 0..MaxRecords},
         externalIdField : ExternalIdFields]

\* --------------------------------------------------------- remote results
NoErrors == [shape |-> "absent", list |-> <<>>]

ErrorObject(i) ==
  [message |-> <<"message", i>>, statusCode |-> "REQUIRED_FIELD_MISSING",
   fields |-> <<"Name">>]

\* The per-record outcomes (DMLResult) of a bulk call.
DMLResults ==
  { [success |-> TRUE, id |-> Id("New", 1), errors |-> NoErrors],
    [success |-> TRUE, id |-> NoId, errors |-> NoErrors],
    [success |-> FALSE, id |-> NoId, errors |-> NoErrors],
    [success |-> FALSE, id |-> NoId,
     errors |-> [shape |-> "single", list |-> <<ErrorObject(1)>>]],
    [success |-> FALSE, id |-> NoId,
     errors |-> [shape |-> "array", list |-> <<ErrorObject(1), ErrorObject(2)>>]] }

\* What a bulk call resolves with: an array of one result per record sent
\* or, for one record sent, also the single result that is not an array.
DMLResponses(payload) ==
  [isArray : {TRUE}, results : [1..Len(payload) -> DMLResults]]
    \cup IF Len(payload) = 1
         THEN [isArray : {FALSE}, results : {<<r>> : r \in DMLResults}]
         ELSE {}

\* ------------------------------------------------------------------ state
VARIABLES
  handler,      \* the tool handler that was invoked ("none" before)
  args,         \* its argument object
  pc,           \* the await the invocation is suspended at, or how it ended
  result,       \* the result object of a handler that returned
  error,        \* the message of the Error a handler threw
  calls,        \* the remote calls issued so far, in order, with their state
  caseDescribe, \* guided flow: describe().fields of Case
  accounts,     \* guided flow: the accounts found
  contacts,     \* guided flow: the contacts found
  records,      \* guided flow: the records found for a reference field
  caseRecord,   \* guided flow: the accumulated record
  fieldIdx,     \* guided flow: position in requiredFields
  last,         \* guided flow: the prompt answered last and its answer
  picked,       \* guided flow: per field, the index answered and the list offered
  flows,        \* guided flows running side by side: the state of each
  stdin         \* process.stdin: the once("data") listeners registered, the chunks emitted

vars ==
  <<handler, args, pc, result, error, calls, caseDescribe, accounts, contacts,
    records, caseRecord, fieldIdx, last, picked, flows, stdin>>

\* The state of the single invocation.
invocationVars ==
  <<handler, args, pc, result, error, calls, caseDescribe, accounts, contacts,
    records, caseRecord, fieldIdx, last, picked>>

\* The state of the flows running side by side.
concurrentVars == <<flows, stdin>>

flowVars ==
  <<caseDescribe, accounts, contacts, records, caseRecord, fieldIdx, last, picked>>

NoResult == [isError |-> FALSE, text |-> [kind |-> "none"]]

\* The empty object {}.
EmptyRecord == [k \in {} |-> Undefined]

NoAnswer == [prompt |-> "none", field |-> "", n |-> 0, line |-> <<>>]

Init ==
  /\ handler = "none"
  /\ args = EmptyRecord
  /\ pc = "idle"
  /\ result = NoResult
  /\ error = ""
  /\ calls = <<>>
  /\ caseDescribe = <<>>
  /\ accounts = <<>>
  /\ contacts = <<>>
  /\ records = <<>>
  /\ caseRecord = EmptyRecord
  /\ fieldIdx = 0
  /\ last = NoAnswer
  /\ picked = EmptyRecord
  /\ flows = <<>>
  /\ stdin = [listeners |-> <<>>, chunks |-> 0]

\* A call conn.sobject(object).<kind>(payload [, externalIdField]).
Call(kind, object, payload, ext) ==
  [kind |-> kind, object |-> object, payload |-> payload, ext |-> ext,
   state |-> "pending", response |-> <<>>]

\* The call awaited (the last one issued) resolves or rejects.
Settle(cs, how) == [cs EXCEPT ![Len(cs)].state = how]

\* The bulk call awaited resolves with `response`.
SettleWith(cs, response) ==
  [cs EXCEPT ![Len(cs)].state = "resolved", ![Len(cs)].response = response]

Pending(cs) == \E i \in 1..Len(cs) : cs[i].state = "pending"

Rejected(cs) == \E i \in 1..Len(cs) : cs[i].state = "rejected"

DMLKinds == {"create", "update", "destroy", "upsert"}

\* !v for a string-or-undefined argument.
Falsy(v) == v \in {Undefined, ""}

\* A result object with a plain message as its text.
Message(isError, msg) == [isError |-> isError, text |-> [kind |-> "message", msg |-> msg]]

\* ------------------------------------------- DML handler, guided variant
\* The switch over the operation: the call it issues, the error it throws,
\* or the diversion into the guided flow.
DMLSwitchMissingUpsertCheck(a) ==
  CASE a.operation = "insert" ->
         IF a.objectName = "Case"
         THEN [kind |-> "guided"]
         ELSE [kind |-> "call", call |-> Call("create", a.objectName, a.records, Undefined)]
    [] a.operation = "update" ->
         [kind |-> "call", call |-> Call("update", a.objectName, a.records, Undefined)]
    [] a.operation = "delete" ->
         [kind |-> "call",
          call |-> Call("destroy", a.objectName,
                        [i \in 1..Len(a.records) |-> a.records[i].Id], Undefined)]
    [] a.operation = "upsert" ->
         [kind |-> "call",
          call |-> Call("upsert", a.objectName, a.records, a.externalIdField)]
    [] OTHER ->
         [kind |-> "throw", message |-> "Unsupported operation"]

DMLSwitch(a) ==
  CASE a.operation = "insert" ->
         IF a.objectName = "Case"
         THEN [kind |-> "guided"]
         ELSE [kind |-> "call", call |-> Call("create", a.objectName, a.records, Undefined)]
    [] a.operation = "update" ->
         [kind |-> "call", call |-> Call("update", a.objectName, a.records, Undefined)]
    [] a.operation = "delete" ->
         [kind |-> "call",
          call |-> Call("destroy", a.objectName,
                        [i \in 1..Len(a.records) |-> a.records[i].Id], Undefined)]
    [] a.operation = "upsert" ->
         IF Falsy(a.externalIdField)
         THEN [kind |-> "throw",
               message |-> "externalIdField is required for upsert operations"]
         ELSE [kind |-> "call",
               call |-> Call("upsert", a.objectName, a.records, a.externalIdField)]
    [] OTHER ->
         [kind |-> "throw", message |-> "Unsupported operation"]

\* const results = Array.isArray(result) ? result : [result]
ResultsOf(response) ==
  IF response.isArray THEN response.results ELSE <<response.results[1]>>

SuccessCount(results) == Cardinality({i \in 1..Len(results) : results[i].success})

\* The slip of counting as failed only the records that carry errors.
FailureCountOfErrors(results) ==
  Cardinality({i \in 1..Len(results) :
                 ~results[i].success /\ results[i].errors.shape # "absent"})

FailureCount(results) == Len(results) - SuccessCount(results)

\* The "Record i - ID: ..." lines of the report.
SuccessLines(results) ==
  IF SuccessCount(results) > 0
  THEN LET idx == SortedSeq({i \in 1..Len(results) :
                              results[i].success /\ results[i].id # NoId})
       IN  [k \in 1..Len(idx) |-> [record |-> idx[k], id |-> results[idx[k]].id]]
  ELSE <<>>

\* The slip of ending the Errors section at the first failed record.
ErrorLinesFirstOnly(results) ==
  IF FailureCount(results) > 0
  THEN LET failed == {i \in 1..Len(results) :
                        ~results[i].success /\ results[i].errors.shape # "absent"}
           first == {i \in failed : \A j \in failed : i <= j}
           idx == SortedSeq(first)
       IN  [k \in 1..Len(idx) |-> [record |-> idx[k], errors |-> results[idx[k]].errors.list]]
  ELSE <<>>

\* The "Record i:" blocks of the Errors section of the report.
ErrorLines(results) ==
  IF FailureCount(results) > 0
  THEN LET idx == SortedSeq({i \in 1..Len(results) :
                              ~results[i].success /\ results[i].errors.shape # "absent"})
       IN  [k \in 1..Len(idx) |-> [record |-> idx[k], errors |-> results[idx[k]].errors.list]]
  ELSE <<>>

\* The report the handler returns once the remote call has resolved.
FormatDMLResults(operation, response) ==
  LET results == ResultsOf(response)
  IN  [isError |-> FALSE,
       text |-> [kind |-> "report",
                 operation |-> operation,
                 processed |-> Len(results),
                 successful |-> SuccessCount(results),
                 failed |-> FailureCount(results),
                 successLines |-> SuccessLines(results),
                 errorLines |-> ErrorLines(results)]]

\* handleDMLRecords(conn, args), up to its first await.
HandleDMLRecords ==
  /\ pc = "idle"
  /\ \E a \in DMLArgs :
       LET d == DMLSwitch(a)
       IN  /\ handler' = "handleDMLRecords"
           /\ args' = a
           /\ pc' = CASE d.kind = "guided" -> "describe"
                      [] d.kind = "call" -> "dml"
                      [] d.kind = "throw" -> "threw"
           /\ calls' = CASE d.kind = "guided" ->
                               <<Call("describe", "Case", <<>>, Undefined)>>
                         [] d.kind = "call" -> <<d.call>>
                         [] d.kind = "throw" -> <<>>
           /\ error' = IF d.kind = "throw" THEN d.message ELSE ""
  /\ UNCHANGED <<result, flowVars>>
  /\ UNCHANGED concurrentVars

\* The bulk call resolves: the results are formatted and returned.
DMLResolves ==
  /\ pc = "dml"
  /\ \E response \in DMLResponses(calls[Len(calls)].payload) :
       /\ result' = FormatDMLResults(args.operation, response)
       /\ calls' = SettleWith(calls, response)
  /\ pc' = "returned"
  /\ UNCHANGED <<handler, args, error, flowVars>>
  /\ UNCHANGED concurrentVars

\* The bulk call rejects: nothing catches it in handleDMLRecords.
DMLRejects ==
  /\ pc = "dml"
  /\ calls' = Settle(calls, "rejected")
  /\ pc' = "threw"
  /\ error' = "remote error"
  /\ UNCHANGED <<handler, args, result, flowVars>>
  /\ UNCHANGED concurrentVars

\* ------------------------------------------------------------ the prompt
\* promptUser(message): resolves with the chunk of stdin data, trimmed.
PromptUser(data) == Trim(data)

\* A prompt that was answered: the step, the field it asks for, the number
\* of choices it offered (0 for free text) and the line it resolved with.
Answer(prompt, field, n, line) ==
  [prompt |-> prompt, field |-> field, n |-> n, line |-> line]

\* ------------------------------------------------------ guided-flow helpers
\* obj[key] = value
Put(rec, key, value) ==
  [k \in DOMAIN rec \cup {key} |-> IF k = key THEN value ELSE rec[k]]

\* The slip of leaving the key in place.
DeleteNothing(rec, key) == rec

\* delete obj[key]
Delete(rec, key) == [k \in DOMAIN rec \ {key} |-> rec[k]]

\* !obj[key] for a property holding text or an Id
FalsyProp(rec, key) == key \notin DOMAIN rec \/ rec[key] = <<>>

\* fields.filter(required), in schema order
RequiredFields(fields) ==
  LET required(f) ==
        /\ ~f.nillable
        /\ ~f.defaultedOnCreate
        /\ f.createable
        /\ f.name # "CaseNumber"
  IN  SelectSeq(fields, required)

HasField(fields, name) == \E i \in 1..Len(fields) : fields[i].name = name

\* fields.find(f => f.name === name), for a name the schema has
FieldNamed(fields, name) ==
  fields[CHOOSE i \in 1..Len(fields) :
           /\ fields[i].name = name
           /\ \A j \in 1..(i - 1) : fields[j].name # name]

\* field && field.picklistValues && field.picklistValues.length > 0
OffersPicklist(fields, name) ==
  HasField(fields, name) /\ Len(FieldNamed(fields, name).picklistValues) > 0

\* isNaN(selection) || selection < 1 || selection > n
InvalidSelection(selection, n) ==
  isNaN(selection) \/ selection.val < 1 \/ selection.val > n

\* list[selection - 1], the list being indexed from 0 in the source
ItemAtOffByOne(list, selection) == list[IF selection.val > 1 THEN selection.val - 1 ELSE 1]

ItemAt(list, selection) == list[(selection.val - 1) + 1]

IdsOf(list) == [i \in 1..Len(list) |-> list[i].Id]

ValuesOf(list) == [i \in 1..Len(list) |-> list[i].value]

\* The fields the loop over requiredFields skips.
SkipsField(rec, f) ==
  \/ f.name \in {"AccountId", "ContactId", "Subject", "Description",
                 "Origin", "Status", "Priority"}
  \/ f.name \in DOMAIN rec

\* The prompt a required field starts with.
FieldPrompt(f) ==
  IF f.type = "reference" /\ Len(f.referenceTo) > 0 THEN "refSearch"
  ELSE IF f.type = "picklist" /\ Len(f.picklistValues) > 0 THEN "picklist"
  ELSE "scalar"

\* The loop over requiredFields from position i on: the next prompt, or the
\* confirmation once the loop is over.
RECURSIVE LoopFrom(_, _, _)
LoopFrom(fields, rec, i) ==
  LET required == RequiredFields(fields)
  IN  IF i > Len(required) THEN [pc |-> "confirm", idx |-> i]
      ELSE IF SkipsField(rec, required[i]) THEN LoopFrom(fields, rec, i + 1)
      ELSE [pc |-> FieldPrompt(required[i]), idx |-> i]

\* The code from a given line of the flow on, up to the next await.
AfterStatus(fields, rec) ==
  IF FalsyProp(rec, "Priority") /\ OffersPicklist(fields, "Priority")
  THEN [pc |-> "priority", idx |-> 0]
  ELSE LoopFrom(fields, rec, 1)

AfterOrigin(fields, rec) ==
  IF FalsyProp(rec, "Status") /\ OffersPicklist(fields, "Status")
  THEN [pc |-> "status", idx |-> 0]
  ELSE AfterStatus(fields, rec)

AfterDescription(fields, rec) ==
  IF FalsyProp(rec, "Origin") /\ OffersPicklist(fields, "Origin")
  THEN [pc |-> "origin", idx |-> 0]
  ELSE AfterOrigin(fields, rec)

AfterSubject(fields, rec) ==
  IF FalsyProp(rec, "Description")
  THEN [pc |-> "description", idx |-> 0]
  ELSE AfterDescription(fields, rec)

AfterWebContact(fields, rec) ==
  IF FalsyProp(rec, "Subject")
  THEN [pc |-> "subject", idx |-> 0]
  ELSE AfterSubject(fields, rec)

\* The slip of asking for no web contact when no contact was chosen.
AfterContactSkippingWeb(fields, rec) == AfterWebContact(fields, rec)

AfterContact(fields, rec) ==
  IF FalsyProp(rec, "ContactId")
  THEN [pc |-> "webEmail", idx |-> 0]
  ELSE AfterWebContact(fields, rec)

\* The slip of reporting the Error without throwing it: the flow stays at
\* the prompt it is at.
ThrowsSwallowed(message) ==
  /\ pc' = pc
  /\ error' = message

\* The flow throws: the Error unwinds through handleDMLRecords.
Throws(message) ==
  /\ pc' = "threw"
  /\ error' = message

\* History, for stating what a selection must store: the index the user
\* typed (0 when the line is no index of the list) and, per field, the
\* index typed together with the list that was offered.
IndexTyped(line, n) ==
  IF \E k \in 1..n : line = <<DigitChar(k)>>
  THEN CHOOSE k \in 1..n : line = <<DigitChar(k)>>
  ELSE 0

Pick(field, line, offered) ==
  IF IndexTyped(line, Len(offered)) > 0
  THEN Put(picked, field, [k |-> IndexTyped(line, Len(offered)), offered |-> offered])
  ELSE picked

\* ------------------------------------------ advancedGuidedCaseCreation
\* describe() of Case resolves; the account search prompt is issued.
DescribeResolves ==
  /\ pc = "describe"
  /\ \E schema \in Schemas : caseDescribe' = schema
  /\ calls' = Settle(calls, "resolved")
  /\ pc' = "accountSearch"
  /\ UNCHANGED <<handler, args, result, error, accounts, contacts,
                 records, caseRecord, fieldIdx, last, picked>>
  /\ UNCHANGED concurrentVars

\* A remote call of the flow that is not inside a try block rejects.
FlowCallRejects ==
  /\ pc \in {"describe", "findAccounts", "findContacts"}
  /\ calls' = Settle(calls, "rejected")
  /\ Throws("remote error")
  /\ UNCHANGED <<handler, args, result, flowVars>>
  /\ UNCHANGED concurrentVars

\* The slip of not awaiting the account find: the selection prompt is
\* issued while the find is still in flight.
AnswerAccountSearchNotAwaitingFind ==
  /\ pc = "accountSearch"
  /\ \E data \in TextLines :
       last' = Answer("accountSearch", "AccountId", 0, PromptUser(data))
  /\ calls' = Append(calls, Call("find", "Account", <<>>, Undefined))
  /\ pc' = "accountSelect"
  /\ UNCHANGED <<handler, args, result, error, caseDescribe, accounts,
                 contacts, records, caseRecord, fieldIdx, picked>>
  /\ UNCHANGED concurrentVars

\* The account search string is answered; the account find is issued.
AnswerAccountSearch ==
  /\ pc = "accountSearch"
  /\ \E data \in TextLines :
       last' = Answer("accountSearch", "AccountId", 0, PromptUser(data))
  /\ calls' = Append(calls, Call("find", "Account", <<>>, Undefined))
  /\ pc' = "findAccounts"
  /\ UNCHANGED <<handler, args, result, error, caseDescribe, accounts,
                 contacts, records, caseRecord, fieldIdx, picked>>
  /\ UNCHANGED concurrentVars

\* The slip of asking for a selection even when one account was found.
FindAccountsResolvesAlwaysAsking ==
  /\ pc = "findAccounts"
  /\ \E n \in 0..MaxChoices :
       /\ accounts' = Found("Account", n)
       /\ IF n = 0
          THEN /\ Throws("No accounts found matching your search criteria")
               /\ calls' = Settle(calls, "resolved")
               /\ UNCHANGED caseRecord
          ELSE /\ pc' = "accountSelect"
               /\ calls' = Settle(calls, "resolved")
               /\ UNCHANGED <<caseRecord, error>>
  /\ UNCHANGED <<handler, args, result, caseDescribe, contacts, records,
                 fieldIdx, last, picked>>
  /\ UNCHANGED concurrentVars

\* The account find resolves.
FindAccountsResolves ==
  /\ pc = "findAccounts"
  /\ \E n \in 0..MaxChoices :
       /\ accounts' = Found("Account", n)
       /\ IF n = 0
          THEN /\ Throws("No accounts found matching your search criteria")
               /\ calls' = Settle(calls, "resolved")
               /\ UNCHANGED caseRecord
          ELSE IF n = 1
          THEN /\ caseRecord' = Put(caseRecord, "AccountId", accounts'[1].Id)
               /\ calls' = Append(Settle(calls, "resolved"),
                     Call("find", "Contact", <<accounts'[1].Id>>, Undefined))
               /\ pc' = "findContacts"
               /\ UNCHANGED error
          ELSE /\ pc' = "accountSelect"
               /\ calls' = Settle(calls, "resolved")
               /\ UNCHANGED <<caseRecord, error>>
  /\ UNCHANGED <<handler, args, result, caseDescribe, contacts, records,
                 fieldIdx, last, picked>>
  /\ UNCHANGED concurrentVars

\* The account selection is answered.
AnswerAccountSelect ==
  /\ pc = "accountSelect"
  /\ \E data \in SelectionLines :
       LET line == PromptUser(data)
           accountSelection == ParseInt(line)
       IN  /\ last' = Answer("accountSelect", "AccountId", Len(accounts), line)
           /\ picked' = Pick("AccountId", line, IdsOf(accounts))
           /\ IF InvalidSelection(accountSelection, Len(accounts))
              THEN /\ Throws("Invalid account selection")
                   /\ UNCHANGED <<caseRecord, calls>>
              ELSE LET selectedAccount == ItemAt(accounts, accountSelection)
                   IN  /\ caseRecord' = Put(caseRecord, "AccountId", selectedAccount.Id)
                       /\ calls' = Append(calls,
                             Call("find", "Contact", <<selectedAccount.Id>>, Undefined))
                       /\ pc' = "findContacts"
                       /\ UNCHANGED error
  /\ UNCHANGED <<handler, args, result, caseDescribe, accounts, contacts,
                 records, fieldIdx>>
  /\ UNCHANGED concurrentVars

\* The contact find resolves.
FindContactsResolves ==
  /\ pc = "findContacts"
  /\ \E n \in 0..MaxChoices :
       /\ contacts' = Found("Contact", n)
       /\ IF n > 0
          THEN pc' = "contactSelect"
          ELSE pc' = AfterContact(caseDescribe, caseRecord).pc
  /\ calls' = Settle(calls, "resolved")
  /\ UNCHANGED <<handler, args, result, error, caseDescribe, accounts,
                 records, caseRecord, fieldIdx, last, picked>>
  /\ UNCHANGED concurrentVars

\* The slip of never storing the contact chosen.
AnswerContactSelectIgnoringChoice ==
  /\ pc = "contactSelect"
  /\ \E data \in SelectionLines :
       LET contactSelectionInput == PromptUser(data)
       IN  /\ last' = Answer("contactSelect", "ContactId", Len(contacts), contactSelectionInput)
           /\ caseRecord' = caseRecord
           /\ picked' = Pick("ContactId", contactSelectionInput, IdsOf(contacts))
           /\ pc' = AfterContact(caseDescribe, caseRecord).pc
  /\ UNCHANGED <<handler, args, result, error, calls, caseDescribe, accounts,
                 contacts, records, fieldIdx>>
  /\ UNCHANGED concurrentVars

\* The optional contact selection is answered.
AnswerContactSelect ==
  /\ pc = "contactSelect"
  /\ \E data \in SelectionLines :
       LET contactSelectionInput == PromptUser(data)
           contactSelection == ParseInt(contactSelectionInput)
           chosen == /\ Trim(contactSelectionInput) # <<>>
                     /\ ~InvalidSelection(contactSelection, Len(contacts))
           rec == IF chosen
                  THEN Put(caseRecord, "ContactId", ItemAt(contacts, contactSelection).Id)
                  ELSE caseRecord
       IN  /\ last' = Answer("contactSelect", "ContactId", Len(contacts), contactSelectionInput)
           /\ caseRecord' = rec
           /\ picked' = Pick("ContactId", contactSelectionInput, IdsOf(contacts))
           /\ pc' = AfterContact(caseDescribe, rec).pc
  /\ UNCHANGED <<handler, args, result, error, calls, caseDescribe, accounts,
                 contacts, records, fieldIdx>>
  /\ UNCHANGED concurrentVars

\* The slip of giving up on a blank web email instead of asking again.
AnswerWebEmailAbortingOnBlank ==
  /\ pc = "webEmail"
  /\ \E data \in TextLines :
       LET webEmail == PromptUser(data)
       IN  /\ last' = Answer("webEmail", "SuppliedEmail", 0, webEmail)
           /\ IF Trim(webEmail) = <<>>
              THEN /\ Throws("Web Email is required when no contact is selected.")
                   /\ UNCHANGED caseRecord
              ELSE /\ caseRecord' = Put(caseRecord, "SuppliedEmail", webEmail)
                   /\ pc' = "webName"
                   /\ UNCHANGED error
  /\ UNCHANGED <<handler, args, result, calls, caseDescribe, accounts,
                 contacts, records, fieldIdx, picked>>
  /\ UNCHANGED concurrentVars

\* One round of the "Web Email (required):" loop.
AnswerWebEmail ==
  /\ pc = "webEmail"
  /\ \E data \in TextLines :
       LET webEmail == PromptUser(data)
       IN  /\ last' = Answer("webEmail", "SuppliedEmail", 0, webEmail)
           /\ IF Trim(webEmail) = <<>>
              THEN UNCHANGED <<pc, caseRecord>>
              ELSE /\ caseRecord' = Put(caseRecord, "SuppliedEmail", webEmail)
                   /\ pc' = "webName"
  /\ UNCHANGED <<handler, args, result, error, calls, caseDescribe, accounts,
                 contacts, records, fieldIdx, picked>>
  /\ UNCHANGED concurrentVars

\* One round of the "Web Name (required):" loop.
AnswerWebName ==
  /\ pc = "webName"
  /\ \E data \in TextLines :
       LET webName == PromptUser(data)
       IN  /\ last' = Answer("webName", "SuppliedName", 0, webName)
           /\ IF Trim(webName) = <<>>
              THEN UNCHANGED <<pc, caseRecord>>
              ELSE LET rec == Put(caseRecord, "SuppliedName", webName)
                   IN  /\ caseRecord' = rec
                       /\ pc' = AfterWebContact(caseDescribe, rec).pc
  /\ UNCHANGED <<handler, args, result, error, calls, caseDescribe, accounts,
                 contacts, records, fieldIdx, picked>>
  /\ UNCHANGED concurrentVars

\* The subject is answered.
AnswerSubject ==
  /\ pc = "subject"
  /\ \E data \in TextLines :
       LET line == PromptUser(data)
           rec == Put(caseRecord, "Subject", line)
       IN  /\ last' = Answer("subject", "Subject", 0, line)
           /\ caseRecord' = rec
           /\ pc' = AfterSubject(caseDescribe, rec).pc
  /\ UNCHANGED <<handler, args, result, error, calls, caseDescribe, accounts,
                 contacts, records, fieldIdx, picked>>
  /\ UNCHANGED concurrentVars

\* The description is answered; a blank one is deleted again.
AnswerDescription ==
  /\ pc = "description"
  /\ \E data \in TextLines :
       LET line == PromptUser(data)
           set == Put(caseRecord, "Description", line)
           rec == IF Trim(set["Description"]) = <<>>
                  THEN Delete(set, "Description")
                  ELSE set
           next == AfterDescription(caseDescribe, rec)
       IN  /\ last' = Answer("description", "Description", 0, line)
           /\ caseRecord' = rec
           /\ pc' = next.pc
           /\ fieldIdx' = next.idx
  /\ UNCHANGED <<handler, args, result, error, calls, caseDescribe, accounts,
                 contacts, records, picked>>
  /\ UNCHANGED concurrentVars

\* The selection for Origin, Status or Priority: the record after the
\* answer `line`. An answer that is no index of the list sets nothing.
CommonPicklistAnswer(rec, name, line) ==
  LET values == FieldNamed(caseDescribe, name).picklistValues
      selection == ParseInt(line)
  IN  IF ~InvalidSelection(selection, Len(values))
      THEN Put(rec, name, ItemAt(values, selection).value)
      ELSE rec

\* The origin selection is answered.
AnswerOrigin ==
  /\ pc = "origin"
  /\ \E data \in SelectionLines :
       LET line == PromptUser(data)
           rec == CommonPicklistAnswer(caseRecord, "Origin", line)
           next == AfterOrigin(caseDescribe, rec)
       IN  /\ last' = Answer("origin", "Origin",
                 Len(FieldNamed(caseDescribe, "Origin").picklistValues), line)
           /\ caseRecord' = rec
           /\ picked' = Pick("Origin", line,
                 ValuesOf(FieldNamed(caseDescribe, "Origin").picklistValues))
           /\ pc' = next.pc
           /\ fieldIdx' = next.idx
  /\ UNCHANGED <<handler, args, result, error, calls, caseDescribe, accounts,
                 contacts, records>>
  /\ UNCHANGED concurrentVars

\* The status selection is answered.
AnswerStatus ==
  /\ pc = "status"
  /\ \E data \in SelectionLines :
       LET line == PromptUser(data)
           rec == CommonPicklistAnswer(caseRecord, "Status", line)
           next == AfterStatus(caseDescribe, rec)
       IN  /\ last' = Answer("status", "Status",
                 Len(FieldNamed(caseDescribe, "Status").picklistValues), line)
           /\ caseRecord' = rec
           /\ picked' = Pick("Status", line,
                 ValuesOf(FieldNamed(caseDescribe, "Status").picklistValues))
           /\ pc' = next.pc
           /\ fieldIdx' = next.idx
  /\ UNCHANGED <<handler, args, result, error, calls, caseDescribe, accounts,
                 contacts, records>>
  /\ UNCHANGED concurrentVars

\* The priority selection is answered.
AnswerPriority ==
  /\ pc = "priority"
  /\ \E data \in SelectionLines :
       LET line == PromptUser(data)
           rec == CommonPicklistAnswer(caseRecord, "Priority", line)
           next == LoopFrom(caseDescribe, rec, 1)
       IN  /\ last' = Answer("priority", "Priority",
                 Len(FieldNamed(caseDescribe, "Priority").picklistValues), line)
           /\ caseRecord' = rec
           /\ picked' = Pick("Priority", line,
                 ValuesOf(FieldNamed(caseDescribe, "Priority").picklistValues))
           /\ pc' = next.pc
           /\ fieldIdx' = next.idx
  /\ UNCHANGED <<handler, args, result, error, calls, caseDescribe, accounts,
                 contacts, records>>
  /\ UNCHANGED concurrentVars

\* The required field the loop is at.
CurrentField == RequiredFields(caseDescribe)[fieldIdx]

\* The search string for a required reference field is answered.
AnswerRefSearch ==
  /\ pc = "refSearch"
  /\ \E data \in TextLines :
       last' = Answer("refSearch", CurrentField.name, 0, PromptUser(data))
  /\ calls' = Append(calls, Call("find", CurrentField.referenceTo[1], <<>>, Undefined))
  /\ pc' = "findRef"
  /\ UNCHANGED <<handler, args, result, error, caseDescribe, accounts,
                 contacts, records, caseRecord, fieldIdx, picked>>
  /\ UNCHANGED concurrentVars

\* The find for a reference field resolves. No record: the Error thrown
\* inside the try block is caught and replaced by another one.
FindRefResolves ==
  /\ pc = "findRef"
  /\ \E n \in 0..MaxChoices :
       /\ records' = Found(CurrentField.referenceTo[1], n)
       /\ IF n = 0
          THEN /\ Throws("Unable to find records")
               /\ UNCHANGED <<caseRecord, fieldIdx>>
          ELSE IF n = 1
          THEN LET rec == Put(caseRecord, CurrentField.name, records'[1].Id)
                   next == LoopFrom(caseDescribe, rec, fieldIdx + 1)
               IN  /\ caseRecord' = rec
                   /\ pc' = next.pc
                   /\ fieldIdx' = next.idx
                   /\ UNCHANGED error
          ELSE /\ pc' = "refSelect"
               /\ UNCHANGED <<caseRecord, fieldIdx, error>>
  /\ calls' = Settle(calls, "resolved")
  /\ UNCHANGED <<handler, args, result, caseDescribe, accounts,
                 contacts, last, picked>>
  /\ UNCHANGED concurrentVars

\* The find for a reference field rejects: caught, and thrown again.
FindRefRejects ==
  /\ pc = "findRef"
  /\ calls' = Settle(calls, "rejected")
  /\ Throws("Unable to find records")
  /\ UNCHANGED <<handler, args, result, flowVars>>
  /\ UNCHANGED concurrentVars

\* The selection for a required reference field is answered.
AnswerRefSelect ==
  /\ pc = "refSelect"
  /\ \E data \in SelectionLines :
       LET line == PromptUser(data)
           selection == ParseInt(line)
       IN  /\ last' = Answer("refSelect", CurrentField.name, Len(records), line)
           /\ picked' = Pick(CurrentField.name, line, IdsOf(records))
           /\ IF InvalidSelection(selection, Len(records))
              THEN /\ Throws("Unable to find records")
                   /\ UNCHANGED <<caseRecord, fieldIdx>>
              ELSE LET rec == Put(caseRecord, CurrentField.name,
                                  ItemAt(records, selection).Id)
                       next == LoopFrom(caseDescribe, rec, fieldIdx + 1)
                   IN  /\ caseRecord' = rec
                       /\ pc' = next.pc
                       /\ fieldIdx' = next.idx
                       /\ UNCHANGED error
  /\ UNCHANGED <<handler, args, result, calls, caseDescribe, accounts,
                 contacts, records>>
  /\ UNCHANGED concurrentVars

\* The selection for a required picklist field is answered.
AnswerPicklist ==
  /\ pc = "picklist"
  /\ \E data \in SelectionLines :
       LET line == PromptUser(data)
           selection == ParseInt(line)
           values == CurrentField.picklistValues
       IN  /\ last' = Answer("picklist", CurrentField.name, Len(values), line)
           /\ picked' = Pick(CurrentField.name, line, ValuesOf(values))
           /\ IF InvalidSelection(selection, Len(values))
              THEN /\ Throws("Invalid selection")
                   /\ UNCHANGED <<caseRecord, fieldIdx>>
              ELSE LET rec == Put(caseRecord, CurrentField.name,
                                  ItemAt(values, selection).value)
                       next == LoopFrom(caseDescribe, rec, fieldIdx + 1)
                   IN  /\ caseRecord' = rec
                       /\ pc' = next.pc
                       /\ fieldIdx' = next.idx
                       /\ UNCHANGED error
  /\ UNCHANGED <<handler, args, result, calls, caseDescribe, accounts,
                 contacts, records>>
  /\ UNCHANGED concurrentVars

\* The value a scalar prompt yields for a field of the given type.
ScalarValue(type, line) ==
  CASE type = "boolean" ->
         [ok |-> TRUE, value |-> (ToLowerCase(line) = <<"t", "r", "u", "e">>)]
    [] type \in {"double", "int", "currency"} ->
         LET fieldValue == ParseFloat(line)
         IN  [ok |-> ~isNaN(fieldValue), value |-> fieldValue.val]
    [] OTHER ->
         [ok |-> TRUE, value |-> line]

\* The prompt for a required field of any other type is answered.
AnswerScalar ==
  /\ pc = "scalar"
  /\ \E data \in ScalarLines :
       LET line == PromptUser(data)
           v == ScalarValue(CurrentField.type, line)
       IN  /\ last' = Answer("scalar", CurrentField.name, 0, line)
           /\ IF ~v.ok
              THEN /\ Throws("Invalid number format")
                   /\ UNCHANGED <<caseRecord, fieldIdx>>
              ELSE LET rec == Put(caseRecord, CurrentField.name, v.value)
                       next == LoopFrom(caseDescribe, rec, fieldIdx + 1)
                   IN  /\ caseRecord' = rec
                       /\ pc' = next.pc
                       /\ fieldIdx' = next.idx
                       /\ UNCHANGED error
  /\ UNCHANGED <<handler, args, result, calls, caseDescribe, accounts,
                 contacts, records, picked>>
  /\ UNCHANGED concurrentVars

\* The slip of sending the caller's records when there are any.
CreateGuidedSendingRecords(objectName, caseDetails) ==
  Call("create", objectName,
       IF args.records = <<>> THEN <<caseDetails>> ELSE args.records, Undefined)

\* The create call of the guided insert: the record the flow returned, as
\* a one-element list; args.records is not read.
CreateGuided(objectName, caseDetails) ==
  Call("create", objectName, <<caseDetails>>, Undefined)

\* The slip of taking "yes" for a confirmation too.
DeclinedUnlessYes(confirmation) ==
  ToLowerCase(confirmation) \notin {<<"y">>, <<"y", "e", "s">>}

\* confirmation.toLowerCase() !== 'y'
Declined(confirmation) == ToLowerCase(confirmation) # <<"y">>

\* The confirmation is answered: the flow throws, or returns the record,
\* which handleDMLRecords sends to create as a one-element list.
AnswerConfirm ==
  /\ pc = "confirm"
  /\ \E data \in ConfirmLines :
       LET confirmation == PromptUser(data)
       IN  /\ last' = Answer("confirm", "", 0, confirmation)
           /\ IF Declined(confirmation)
              THEN /\ Throws("Case creation canceled by user.")
                   /\ UNCHANGED calls
              ELSE /\ calls' = Append(calls, CreateGuided(args.objectName, caseRecord))
                   /\ pc' = "dml"
                   /\ UNCHANGED error
  /\ UNCHANGED <<handler, args, result, caseDescribe, accounts, contacts,
                 records, caseRecord, fieldIdx, picked>>
  /\ UNCHANGED concurrentVars

\* The slip of sending an update as a create.
DmlTsSwitchUpdatingByCreate(a) ==
  CASE a.operation = "insert" ->
         IF a.objectName = "Case"
         THEN [kind |-> "return",
               result |-> Message(TRUE, "please use the dedicated case creation tools")]
         ELSE [kind |-> "call", call |-> Call("create", a.objectName, a.records, Undefined)]
    [] a.operation = "update" ->
         [kind |-> "call", call |-> Call("create", a.objectName, a.records, Undefined)]
    [] a.operation = "delete" ->
         [kind |-> "call",
          call |-> Call("destroy", a.objectName,
                        [i \in 1..Len(a.records) |-> a.records[i].Id], Undefined)]
    [] a.operation = "upsert" ->
         IF Falsy(a.externalIdField)
         THEN [kind |-> "throw",
               message |-> "externalIdField is required for upsert operations"]
         ELSE [kind |-> "call",
               call |-> Call("upsert", a.objectName, a.records, a.externalIdField)]
    [] OTHER ->
         [kind |-> "throw", message |-> "Unsupported operation"]

\* ----------------------------------------- DML handler, rejecting variant
\* The switch over the operation of the variant that refuses to insert a
\* Case.
DmlTsSwitch(a) ==
  CASE a.operation = "insert" ->
         IF a.objectName = "Case"
         THEN [kind |-> "return",
               result |-> Message(TRUE, "please use the dedicated case creation tools")]
         ELSE [kind |-> "call", call |-> Call("create", a.objectName, a.records, Undefined)]
    [] a.operation = "update" ->
         [kind |-> "call", call |-> Call("update", a.objectName, a.records, Undefined)]
    [] a.operation = "delete" ->
         [kind |-> "call",
          call |-> Call("destroy", a.objectName,
                        [i \in 1..Len(a.records) |-> a.records[i].Id], Undefined)]
    [] a.operation = "upsert" ->
         IF Falsy(a.externalIdField)
         THEN [kind |-> "throw",
               message |-> "externalIdField is required for upsert operations"]
         ELSE [kind |-> "call",
               call |-> Call("upsert", a.objectName, a.records, a.externalIdField)]
    [] OTHER ->
         [kind |-> "throw", message |-> "Unsupported operation"]

\* The report of the rejecting variant.
DmlTsFormatResults(operation, response) ==
  LET results == IF response.isArray THEN response.results ELSE <<response.results[1]>>
      successCount == Cardinality({i \in 1..Len(results) : results[i].success})
      failureCount == Len(results) - successCount
      succeeded == SortedSeq({i \in 1..Len(results) :
                               results[i].success /\ results[i].id # NoId})
      failed == SortedSeq({i \in 1..Len(results) :
                            ~results[i].success /\ results[i].errors.shape # "absent"})
  IN  [isError |-> FALSE,
       text |-> [kind |-> "report",
                 operation |-> operation,
                 processed |-> Len(results),
                 successful |-> successCount,
                 failed |-> failureCount,
                 successLines |->
                   IF successCount > 0
                   THEN [k \in 1..Len(succeeded) |->
                           [record |-> succeeded[k], id |-> results[succeeded[k]].id]]
                   ELSE <<>>,
                 errorLines |->
                   IF failureCount > 0
                   THEN [k \in 1..Len(failed) |->
                           [record |-> failed[k], errors |-> results[failed[k]].errors.list]]
                   ELSE <<>>]]

\* handleDMLRecords(conn, args) of the rejecting variant, up to its await.
HandleDMLRecordsRejecting ==
  /\ pc = "idle"
  /\ \E a \in DMLArgs :
       LET d == DmlTsSwitch(a)
       IN  /\ handler' = "handleDMLRecordsRejecting"
           /\ args' = a
           /\ pc' = CASE d.kind = "return" -> "returned"
                      [] d.kind = "call" -> "dmlTs"
                      [] d.kind = "throw" -> "threw"
           /\ calls' = IF d.kind = "call" THEN <<d.call>> ELSE <<>>
           /\ error' = IF d.kind = "throw" THEN d.message ELSE ""
           /\ result' = IF d.kind = "return" THEN d.result ELSE result
  /\ UNCHANGED flowVars
  /\ UNCHANGED concurrentVars

DmlTsResolves ==
  /\ pc = "dmlTs"
  /\ \E response \in DMLResponses(calls[Len(calls)].payload) :
       /\ result' = DmlTsFormatResults(args.operation, response)
       /\ calls' = SettleWith(calls, response)
  /\ pc' = "returned"
  /\ UNCHANGED <<handler, args, error, flowVars>>
  /\ UNCHANGED concurrentVars

DmlTsRejects ==
  /\ pc = "dmlTs"
  /\ calls' = Settle(calls, "rejected")
  /\ pc' = "threw"
  /\ error' = "remote error"
  /\ UNCHANGED <<handler, args, result, flowVars>>
  /\ UNCHANGED concurrentVars

\* ------------------------------------------------ single-purpose handlers
\* The slip of a catch clause that throws the error again.
CaughtRethrown(what) ==
  /\ calls' = Settle(calls, "rejected")
  /\ error' = "remote error"
  /\ result' = result
  /\ pc' = "threw"

\* A remote call inside a handler's try block rejects: the catch clause
\* returns the error as a result object.
Caught(what) ==
  /\ calls' = Settle(calls, "rejected")
  /\ error' = "remote error"
  /\ result' = Message(TRUE, what)
  /\ pc' = "returned"

\* The numbered enumeration (1-based index, name, id) of found records.
Enumeration(list) ==
  [i \in 1..Len(list) |-> [index |-> (i - 1) + 1, name |-> list[i].Name, id |-> list[i].Id]]

\* The slip of reporting an empty search as an error.
SearchAccountsResultEmptyIsError(found) ==
  IF Len(found) = 0
  THEN Message(TRUE, "No accounts found matching your search criteria.")
  ELSE [isError |-> FALSE, text |-> [kind |-> "list", lines |-> Enumeration(found)]]

\* The result of handleSearchAccounts once the find has resolved.
SearchAccountsResult(found) ==
  IF Len(found) = 0
  THEN Message(FALSE, "No accounts found matching your search criteria.")
  ELSE [isError |-> FALSE, text |-> [kind |-> "list", lines |-> Enumeration(found)]]

HandleSearchAccounts ==
  /\ pc = "idle"
  /\ handler' = "handleSearchAccounts"
  /\ args' = [searchTerm |-> <<"A", "c", "m", "e">>]
  /\ calls' = <<Call("find", "Account", <<>>, Undefined)>>
  /\ pc' = "searchAccounts"
  /\ UNCHANGED <<result, error, flowVars>>
  /\ UNCHANGED concurrentVars

SearchAccountsResolves ==
  /\ pc = "searchAccounts"
  /\ \E n \in 0..MaxChoices :
       /\ accounts' = Found("Account", n)
       /\ result' = SearchAccountsResult(accounts')
  /\ calls' = Settle(calls, "resolved")
  /\ pc' = "returned"
  /\ UNCHANGED <<handler, args, error, caseDescribe, contacts, records,
                 caseRecord, fieldIdx, last, picked>>
  /\ UNCHANGED concurrentVars

SearchAccountsRejects ==
  /\ pc = "searchAccounts"
  /\ Caught("Error searching accounts")
  /\ UNCHANGED <<handler, args, flowVars>>
  /\ UNCHANGED concurrentVars

\* The result of handleSearchContacts once both calls have resolved.
SearchContactsResult(found) ==
  IF Len(found) = 0
  THEN Message(FALSE, "No contacts found for account")
  ELSE [isError |-> FALSE, text |-> [kind |-> "list", lines |-> Enumeration(found)]]

HandleSearchContacts ==
  /\ pc = "idle"
  /\ handler' = "handleSearchContacts"
  /\ args' = [accountId |-> Id("Account", 1)]
  /\ calls' = <<Call("retrieve", "Account", <<Id("Account", 1)>>, Undefined)>>
  /\ pc' = "retrieveAccount"
  /\ UNCHANGED <<result, error, flowVars>>
  /\ UNCHANGED concurrentVars

\* retrieve() resolves with the account; the contact find is issued.
RetrieveAccountResolves ==
  /\ pc = "retrieveAccount"
  /\ accounts' = <<[Id |-> args.accountId, Name |-> <<"Name", "Account", 1>>]>>
  /\ calls' = Append(Settle(calls, "resolved"),
                     Call("find", "Contact", <<args.accountId>>, Undefined))
  /\ pc' = "searchContacts"
  /\ UNCHANGED <<handler, args, result, error, caseDescribe, contacts, records,
                 caseRecord, fieldIdx, last, picked>>
  /\ UNCHANGED concurrentVars

SearchContactsResolves ==
  /\ pc = "searchContacts"
  /\ \E n \in 0..MaxChoices :
       /\ contacts' = Found("Contact", n)
       /\ result' = SearchContactsResult(contacts')
  /\ calls' = Settle(calls, "resolved")
  /\ pc' = "returned"
  /\ UNCHANGED <<handler, args, error, caseDescribe, accounts, records,
                 caseRecord, fieldIdx, last, picked>>
  /\ UNCHANGED concurrentVars

SearchContactsRejects ==
  /\ pc \in {"retrieveAccount", "searchContacts"}
  /\ Caught("Error searching contacts")
  /\ UNCHANGED <<handler, args, flowVars>>
  /\ UNCHANGED concurrentVars

\* The argument objects of handleCreateCase; an optional argument left out
\* is the empty value.
CreateCaseArgs ==
  [subject : {<<"s">>}, description : {<<"d">>}, priority : {<<"High">>},
   status : {<<"New">>}, accountId : {Id("Account", 1)},
   contactId : {NoId, Id("Contact", 1)},
   caseType : {<<>>, <<"Problem">>},
   origin : {<<>>, <<"Web">>},
   additionalFields : {EmptyRecord, [Reason |-> <<"r">>]}]

\* Object.assign(target, source)
Assign(target, source) ==
  [k \in DOMAIN target \cup DOMAIN source |->
     IF k \in DOMAIN source THEN source[k] ELSE target[k]]

\* The case record handleCreateCase prepares from its arguments.
CaseRecordOf(a) ==
  LET base == [Subject |-> a.subject, Description |-> a.description,
               Priority |-> a.priority, Status |-> a.status,
               AccountId |-> a.accountId]
      withContact == IF a.contactId # <<>> THEN Put(base, "ContactId", a.contactId) ELSE base
      withType == IF a.caseType # <<>> THEN Put(withContact, "Type", a.caseType)
                  ELSE withContact
      withOrigin == IF a.origin # <<>> THEN Put(withType, "Origin", a.origin) ELSE withType
  IN  Assign(withOrigin, a.additionalFields)

\* The slip of reporting a create that resolved without success as no error.
CreateCaseResultFailureNotError(a, r) ==
  IF r.success
  THEN [isError |-> FALSE,
        text |-> [kind |-> "created", id |-> r.id, subject |-> a.subject,
                  priority |-> a.priority, status |-> a.status]]
  ELSE Message(FALSE, "Failed to create case")

\* The result of handleCreateCase once create() has resolved with r. The
\* join of an errors property that is no array throws inside the try block.
CreateCaseResult(a, r) ==
  IF r.success
  THEN [isError |-> FALSE,
        text |-> [kind |-> "created", id |-> r.id, subject |-> a.subject,
                  priority |-> a.priority, status |-> a.status]]
  ELSE IF r.errors.shape = "single"
  THEN Message(TRUE, "Error creating case")
  ELSE Message(TRUE, "Failed to create case")

HandleCreateCase ==
  /\ pc = "idle"
  /\ \E a \in CreateCaseArgs :
       /\ args' = a
       /\ caseRecord' = CaseRecordOf(a)
       /\ calls' = <<Call("create", "Case", caseRecord', Undefined)>>
  /\ handler' = "handleCreateCase"
  /\ pc' = "createCase"
  /\ UNCHANGED <<result, error, caseDescribe, accounts, contacts, records,
                 fieldIdx, last, picked>>
  /\ UNCHANGED concurrentVars

CreateCaseResolves ==
  /\ pc = "createCase"
  /\ \E r \in DMLResults :
       /\ result' = CreateCaseResult(args, r)
       /\ calls' = SettleWith(calls, [isArray |-> FALSE, results |-> <<r>>])
  /\ pc' = "returned"
  /\ UNCHANGED <<handler, args, error, flowVars>>
  /\ UNCHANGED concurrentVars

CreateCaseRejects ==
  /\ pc = "createCase"
  /\ Caught("Error creating case")
  /\ UNCHANGED <<handler, args, flowVars>>
  /\ UNCHANGED concurrentVars

\* The slip of leaving the " (Default)" mark out.
PicklistLinesWithoutDefault(values) ==
  [i \in 1..Len(values) |->
     [index |-> (i - 1) + 1, label |-> values[i].label, default |-> FALSE]]

\* The numbered lines of a picklist: index, label, and the default mark.
PicklistLines(values) ==
  [i \in 1..Len(values) |->
     [index |-> (i - 1) + 1, label |-> values[i].label,
      default |-> values[i].defaultValue]]

\* The result of handleGetPicklistValues once describe() has resolved.
PicklistValuesResult(fields, fieldName) ==
  IF ~HasField(fields, fieldName)
  THEN Message(TRUE, "Field not found on Case object.")
  ELSE IF FieldNamed(fields, fieldName).type # "picklist"
  THEN Message(TRUE, "Field is not a picklist field.")
  ELSE [isError |-> FALSE,
        text |-> [kind |-> "picklist",
                  lines |-> PicklistLines(FieldNamed(fields, fieldName).picklistValues)]]

FieldNames == {"Priority", "Origin", "Status", "Subject", "Type"}

HandleGetPicklistValues ==
  /\ pc = "idle"
  /\ \E fieldName \in FieldNames : args' = [fieldName |-> fieldName]
  /\ handler' = "handleGetPicklistValues"
  /\ calls' = <<Call("describe", "Case", <<>>, Undefined)>>
  /\ pc' = "picklistValues"
  /\ UNCHANGED <<result, error, flowVars>>
  /\ UNCHANGED concurrentVars

GetPicklistValuesResolves ==
  /\ pc = "picklistValues"
  /\ \E schema \in Schemas :
       /\ caseDescribe' = schema
       /\ result' = PicklistValuesResult(schema, args.fieldName)
  /\ calls' = Settle(calls, "resolved")
  /\ pc' = "returned"
  /\ UNCHANGED <<handler, args, error, accounts, contacts, records,
                 caseRecord, fieldIdx, last, picked>>
  /\ UNCHANGED concurrentVars

GetPicklistValuesRejects ==
  /\ pc = "picklistValues"
  /\ Caught("Error getting picklist values")
  /\ UNCHANGED <<handler, args, flowVars>>
  /\ UNCHANGED concurrentVars

\* The result of handleGetCaseMetadata once describe() has resolved.
CaseMetadataResult(fields) ==
  LET required == RequiredFields(fields)
  IN  [isError |-> FALSE,
       text |-> [kind |-> "metadata",
                 requiredFields |->
                   [i \in 1..Len(required) |->
                      [name |-> required[i].name, type |-> required[i].type]]]]

HandleGetCaseMetadata ==
  /\ pc = "idle"
  /\ handler' = "handleGetCaseMetadata"
  /\ args' = EmptyRecord
  /\ calls' = <<Call("describe", "Case", <<>>, Undefined)>>
  /\ pc' = "caseMetadata"
  /\ UNCHANGED <<result, error, flowVars>>
  /\ UNCHANGED concurrentVars

GetCaseMetadataResolves ==
  /\ pc = "caseMetadata"
  /\ \E schema \in Schemas :
       /\ caseDescribe' = schema
       /\ result' = CaseMetadataResult(schema)
  /\ calls' = Settle(calls, "resolved")
  /\ pc' = "returned"
  /\ UNCHANGED <<handler, args, error, accounts, contacts, records,
                 caseRecord, fieldIdx, last, picked>>
  /\ UNCHANGED concurrentVars

GetCaseMetadataRejects ==
  /\ pc = "caseMetadata"
  /\ Caught("Error getting case metadata")
  /\ UNCHANGED <<handler, args, flowVars>>
  /\ UNCHANGED concurrentVars

Next ==
  \/ HandleDMLRecords
  \/ DMLResolves
  \/ DMLRejects
  \/ DescribeResolves
  \/ FlowCallRejects
  \/ AnswerAccountSearch
  \/ FindAccountsResolves
  \/ AnswerAccountSelect
  \/ FindContactsResolves
  \/ AnswerContactSelect
  \/ AnswerWebEmail
  \/ AnswerWebName
  \/ AnswerSubject
  \/ AnswerDescription
  \/ AnswerOrigin
  \/ AnswerStatus
  \/ AnswerPriority
  \/ AnswerRefSearch
  \/ FindRefResolves
  \/ FindRefRejects
  \/ AnswerRefSelect
  \/ AnswerPicklist
  \/ AnswerScalar
  \/ AnswerConfirm
  \/ HandleDMLRecordsRejecting
  \/ DmlTsResolves
  \/ DmlTsRejects
  \/ HandleSearchAccounts
  \/ SearchAccountsResolves
  \/ SearchAccountsRejects
  \/ HandleSearchContacts
  \/ RetrieveAccountResolves
  \/ SearchContactsResolves
  \/ SearchContactsRejects
  \/ HandleCreateCase
  \/ CreateCaseResolves
  \/ CreateCaseRejects
  \/ HandleGetPicklistValues
  \/ GetPicklistValuesResolves
  \/ GetPicklistValuesRejects
  \/ HandleGetCaseMetadata
  \/ GetCaseMetadataResolves
  \/ GetCaseMetadataRejects

Spec == Init /\ [][Next]_vars

\* ------------------------------------------- the guided insert on its own
\* One handleDMLRecords invocation for insert on Case, from the point where
\* it has entered the guided flow (describe() of Case is awaited) to its
\* end, under the scheduling the environment is taken to guarantee.
InitGuided ==
  /\ handler = "handleDMLRecords"
  /\ \E n \in 0..MaxRecords :
       args = [operation |-> "insert", objectName |-> "Case",
               records |-> CallerRecords(n), externalIdField |-> Undefined]
  /\ pc = "describe"
  /\ result = NoResult
  /\ error = ""
  /\ calls = <<Call("describe", "Case", <<>>, Undefined)>>
  /\ caseDescribe = <<>>
  /\ accounts = <<>>
  /\ contacts = <<>>
  /\ records = <<>>
  /\ caseRecord = EmptyRecord
  /\ fieldIdx = 0
  /\ last = NoAnswer
  /\ picked = EmptyRecord
  /\ flows = <<>>
  /\ stdin = [listeners |-> <<>>, chunks |-> 0]

NextGuided ==
  \/ DescribeResolves
  \/ FlowCallRejects
  \/ AnswerAccountSearch
  \/ FindAccountsResolves
  \/ AnswerAccountSelect
  \/ FindContactsResolves
  \/ AnswerContactSelect
  \/ AnswerWebEmail
  \/ AnswerWebName
  \/ AnswerSubject
  \/ AnswerDescription
  \/ AnswerOrigin
  \/ AnswerStatus
  \/ AnswerPriority
  \/ AnswerRefSearch
  \/ FindRefResolves
  \/ FindRefRejects
  \/ AnswerRefSelect
  \/ AnswerPicklist
  \/ AnswerScalar
  \/ AnswerConfirm
  \/ DMLResolves
  \/ DMLRejects

\* An awaited remote call settles and a pending prompt is answered (a
\* step is taken whenever one can be), and each of the two web contact
\* prompts is eventually given an answer that is not blank.
Fairness ==
  /\ WF_vars(NextGuided)
  /\ WF_vars(AnswerWebEmail /\ pc' # pc)
  /\ WF_vars(AnswerWebName /\ pc' # pc)

SpecGuided == InitGuided /\ [][NextGuided]_vars /\ Fairness

\* ------------------------------------------ guided flows side by side
\* Several handleDMLRecords invocations for insert on Case, their guided
\* flows interleaving at their awaits, from the start of each flow to the
\* contact lookup.  Each flow has its own locals (accounts, caseRecord);
\* process.stdin is the one object of the process.
Flows == 1..NumFlows

\* A flow that has not started, with its locals.
IdleFlow ==
  [pc |-> "idle", accounts |-> <<>>, caseRecord |-> EmptyRecord, answered |-> 0]

InitConcurrent ==
  /\ handler = "none"
  /\ args = EmptyRecord
  /\ pc = "idle"
  /\ result = NoResult
  /\ error = ""
  /\ calls = <<>>
  /\ caseDescribe = <<>>
  /\ accounts = <<>>
  /\ contacts = <<>>
  /\ records = <<>>
  /\ caseRecord = EmptyRecord
  /\ fieldIdx = 0
  /\ last = NoAnswer
  /\ picked = EmptyRecord
  /\ flows = [f \in Flows |-> IdleFlow]
  /\ stdin = [listeners |-> <<>>, chunks |-> 0]

\* promptUser called by flow f: stdin.once("data", listener).
Once(in, f) == [in EXCEPT !.listeners = Append(@, f)]

\* The flows whose listener is registered.
Listening(in) == {in.listeners[i] : i \in 1..Len(in.listeners)}

\* The code of a flow from the prompt it waits at, resolved with `line`,
\* up to its next await.
Resume(fl, line) ==
  IF fl.pc = "accountSearch"
  THEN [fl EXCEPT !.pc = "findAccounts", !.answered = @ + 1]
  ELSE LET accountSelection == ParseInt(line)
       IN  IF InvalidSelection(accountSelection, Len(fl.accounts))
           THEN [fl EXCEPT !.pc = "threw", !.answered = @ + 1]
           ELSE [fl EXCEPT !.pc = "findContacts", !.answered = @ + 1,
                           !.caseRecord = Put(@, "AccountId",
                                              ItemAt(fl.accounts, accountSelection).Id)]

\* A handleDMLRecords invocation for insert on Case enters its guided
\* flow: describe() of Case is issued and awaited.
FlowStarts ==
  /\ \E f \in Flows :
       /\ flows[f].pc = "idle"
       /\ flows' = [flows EXCEPT ![f].pc = "describe"]
  /\ UNCHANGED <<invocationVars, stdin>>

\* describe() resolves for a flow: caseRecord = {}, and the account search
\* prompt registers its listener.
FlowDescribeResolves ==
  /\ \E f \in Flows :
       /\ flows[f].pc = "describe"
       /\ flows' = [flows EXCEPT ![f].pc = "accountSearch"]
       /\ stdin' = Once(stdin, f)
  /\ UNCHANGED invocationVars

\* A remote call of a flow rejects.
FlowRemoteRejects ==
  /\ \E f \in Flows :
       /\ flows[f].pc \in {"describe", "findAccounts"}
       /\ flows' = [flows EXCEPT ![f].pc = "threw"]
  /\ UNCHANGED <<invocationVars, stdin>>

\* The account find of a flow resolves: no account throws, one is taken,
\* several are offered by a prompt that registers its listener.
FlowFindAccountsResolves ==
  /\ \E f \in Flows, n \in 0..MaxChoices :
       /\ flows[f].pc = "findAccounts"
       /\ LET found == Found("Account", n)
          IN  IF n = 0
              THEN /\ flows' = [flows EXCEPT ![f].pc = "threw", ![f].accounts = found]
                   /\ UNCHANGED stdin
              ELSE IF n = 1
              THEN /\ flows' = [flows EXCEPT ![f].pc = "findContacts",
                                             ![f].accounts = found,
                                             ![f].caseRecord = Put(@, "AccountId", found[1].Id)]
                   /\ UNCHANGED stdin
              ELSE /\ flows' = [flows EXCEPT ![f].pc = "accountSelect",
                                             ![f].accounts = found]
                   /\ stdin' = Once(stdin, f)
  /\ UNCHANGED invocationVars

\* A chunk of data arrives on process.stdin: the "data" event calls every
\* listener registered with once(), each resolving its prompt with the
\* trimmed chunk, and removes them.
StdinData ==
  /\ stdin.listeners # <<>>
  /\ \E data \in SelectionLines \cup TextLines :
       flows' = [f \in Flows |->
                   IF f \in Listening(stdin)
                   THEN Resume(flows[f], PromptUser(data))
                   ELSE flows[f]]
  /\ stdin' = [listeners |-> <<>>, chunks |-> stdin.chunks + 1]
  /\ UNCHANGED invocationVars

NextConcurrent ==
  \/ FlowStarts
  \/ FlowDescribeResolves
  \/ FlowRemoteRejects
  \/ FlowFindAccountsResolves
  \/ StdinData

SpecConcurrent == InitConcurrent /\ [][NextConcurrent]_vars

\* ============================================================ properties
DMLHandlers == {"handleDMLRecords", "handleDMLRecordsRejecting"}

\* An invocation of the guided variant for insert on Case.
GuidedInsert ==
  /\ handler = "handleDMLRecords"
  /\ args.operation = "insert"
  /\ args.objectName = "Case"

\* The positions of the calls of a DML kind that were issued.
DMLCalls == {i \in 1..Len(calls) : calls[i].kind \in DMLKinds}

\* The answers equal to "y" without regard to case.
YesAnswers == {<<"y">>, <<"Y">>}

\* The selection steps of the guided flow.
SelectionPrompts ==
  {"accountSelect", "contactSelect", "origin", "status", "priority",
   "refSelect", "picklist"}

\* The last answer was given to a selection step and is no index of the
\* list offered: non-numeric, 0, N+1 or otherwise outside [1, N].
InvalidAnswer ==
  /\ last.prompt \in SelectionPrompts
  /\ IndexTyped(last.line, last.n) = 0

\* C1: in a guided insert of a Case, a create call is issued only after the
\* confirmation prompt was answered "y" or "Y"; after any other answer and
\* after an abort at an earlier step no create, update, destroy or upsert
\* call has been issued.
C1_CreateOnlyAfterYes ==
  GuidedInsert =>
    /\ \A i \in DMLCalls :
         /\ calls[i].kind = "create"
         /\ last.prompt = "confirm"
         /\ last.line \in YesAnswers
    /\ (pc = "threw" => DMLCalls = {} \/ calls[Len(calls)].state = "rejected")
    /\ (last.prompt = "confirm" /\ last.line \notin YesAnswers =>
          pc = "threw" /\ DMLCalls = {})

C1_Witness ==
  /\ GuidedInsert
  /\ pc = "returned"
  /\ last.prompt = "confirm"
  /\ last.line = <<"Y">>
  /\ \E i \in DMLCalls : calls[i].kind = "create"

C3_SelectionStoresKthItem ==
  GuidedInsert =>
    \A f \in DOMAIN picked :
      /\ f \in DOMAIN caseRecord
      /\ caseRecord[f] = picked[f].offered[picked[f].k]

C3_Witness ==
  /\ GuidedInsert
  /\ pc = "confirm"
  /\ "AccountId" \in DOMAIN picked
  /\ picked["AccountId"].k = 2
  /\ Len(accounts) = 2
  /\ caseRecord["AccountId"] = Id("Account", 2)
  /\ "Origin" \in DOMAIN picked

\* C4: when the confirmation prompt is reached and no contact was chosen,
\* the accumulated record holds SuppliedEmail and SuppliedName, each a
\* non-empty string.
C4_WebContactBeforeConfirm ==
  GuidedInsert /\ pc = "confirm" /\ "ContactId" \notin DOMAIN caseRecord =>
    /\ "SuppliedEmail" \in DOMAIN caseRecord
    /\ "SuppliedName" \in DOMAIN caseRecord
    /\ Len(caseRecord["SuppliedEmail"]) > 0
    /\ Len(caseRecord["SuppliedName"]) > 0
    /\ \E i \in 1..Len(caseRecord["SuppliedEmail"]) :
         caseRecord["SuppliedEmail"][i] \notin WhiteSpace
    /\ \E i \in 1..Len(caseRecord["SuppliedName"]) :
         caseRecord["SuppliedName"][i] \notin WhiteSpace

C4_Witness ==
  /\ GuidedInsert
  /\ pc = "confirm"
  /\ Len(contacts) > 0
  /\ "ContactId" \notin DOMAIN caseRecord
  /\ "SuppliedEmail" \in DOMAIN caseRecord

\* C5: upsert with a missing or empty externalIdField fails, and no remote
\* call is issued in that invocation.
C5_UpsertWithoutExternalIdFails ==
  /\ handler \in DMLHandlers
  /\ args.operation = "upsert"
  /\ args.externalIdField \in {Undefined, ""}
  => /\ pc = "threw"
     /\ calls = <<>>

C5_Witness ==
  /\ handler = "handleDMLRecords"
  /\ args.operation = "upsert"
  /\ args.externalIdField = ""
  /\ Len(args.records) > 0
  /\ pc = "threw"

\* A DML handler has returned its report.
Reported ==
  /\ handler \in DMLHandlers
  /\ pc = "returned"
  /\ result.text.kind = "report"

\* What the bulk call of the invocation resolved with.
Response == calls[Len(calls)].response

\* The results the remote call resolved with: the elements of an array, or
\* the one result that is no array.
Returned == IF Response.isArray THEN Response.results ELSE <<Response.results[1]>>

FailedRecords == {i \in 1..Len(Returned) : ~Returned[i].success}

\* C6 as stated: the successful and the failed count of every report add up
\* to records.length.
C6_CountsAddUpToRecords ==
  Reported => result.text.successful + result.text.failed = Len(args.records)

\* C6, amended: the two counts add up to the number of results the remote
\* call resolved with, one for a result that is no array. That number is
\* records.length for every operation but the guided insert of a Case,
\* which sends the one record of the flow: there the counts add up to 1
\* whatever records.length is.
C6_CountsAddUpToResults ==
  Reported =>
    /\ result.text.successful + result.text.failed = Len(Returned)
    /\ result.text.processed = Len(Returned)
    /\ result.text.failed = Cardinality(FailedRecords)
    /\ (~GuidedInsert =>
          result.text.successful + result.text.failed = Len(args.records))
    /\ (GuidedInsert => result.text.successful + result.text.failed = 1)

C6_Witness ==
  /\ Reported
  /\ GuidedInsert
  /\ Response.isArray
  /\ Len(args.records) = 2
  /\ result.text.successful + result.text.failed = 1

TryCatchHandlers ==
  {"handleSearchAccounts", "handleSearchContacts", "handleCreateCase",
   "handleGetPicklistValues", "handleGetCaseMetadata"}

\* C7 as stated: no handler, handleDMLRecords included, propagates a thrown
\* error.
C7_NoHandlerThrows == pc # "threw"

\* C7, amended: the search, create-case, picklist and metadata handlers
\* return every failure as a result with isError true and never throw;
\* handleDMLRecords, in both variants, catches nothing: a missing
\* externalIdField on upsert, a rejected remote call and every abort of the
\* guided flow leave it as a thrown error, and it returns no result.
C7_OnlyDMLHandlersThrow ==
  /\ handler \in TryCatchHandlers =>
       /\ pc # "threw"
       /\ (pc = "returned" /\ Rejected(calls) => result.isError)
       /\ (/\ handler = "handleGetPicklistValues"
           /\ pc = "returned"
           /\ ~Rejected(calls)
           /\ \A i \in 1..Len(caseDescribe) :
                caseDescribe[i].name = args.fieldName => caseDescribe[i].type # "picklist"
           => result.isError)
  /\ handler \in DMLHandlers =>
       /\ (Rejected(calls) => pc = "threw" /\ result = NoResult)
       /\ (args.operation = "upsert" /\ args.externalIdField \in {Undefined, ""} =>
             pc = "threw" /\ result = NoResult)
       /\ (/\ Len(calls) > 0
           /\ calls[Len(calls)].kind = "find"
           /\ calls[Len(calls)].object = "Account"
           /\ calls[Len(calls)].state = "resolved"
           /\ accounts = <<>>
           => pc = "threw")
       /\ (pc = "threw" => result = NoResult)

C7_Witness ==
  /\ handler = "handleDMLRecords"
  /\ args.operation = "update"
  /\ pc = "threw"
  /\ Rejected(calls)

\* C8: once the bulk call has resolved, the handler returns isError false
\* whatever the mix of successes and failures, counts every failed record,
\* and gives each failed record that carries errors its own block, in
\* order, the ones after the first failure included.
C8_PartialFailureIsNoError ==
  /\ handler \in DMLHandlers
  /\ DMLCalls # {}
  /\ calls[Len(calls)].state = "resolved"
  => /\ pc = "returned"
     /\ ~result.isError
     /\ result.text.failed = Cardinality(FailedRecords)
     /\ LET blocks == result.text.errorLines
        IN  /\ \A i \in FailedRecords :
                 Returned[i].errors.shape # "absent" =>
                   \E k \in 1..Len(blocks) :
                     /\ blocks[k].record = i
                     /\ blocks[k].errors = Returned[i].errors.list
            /\ \A k \in 1..Len(blocks) : blocks[k].record \in FailedRecords
            /\ \A k \in 1..(Len(blocks) - 1) : blocks[k].record < blocks[k + 1].record

C8_Witness ==
  /\ handler = "handleDMLRecords"
  /\ pc = "returned"
  /\ Len(Returned) = 2
  /\ FailedRecords = {1, 2}
  /\ ~result.isError
  /\ Len(result.text.errorLines) = 2
  /\ result.text.errorLines[2].record = 2

\* C9: the search handlers never throw; they return isError true exactly
\* when one of their remote calls rejected, and a search that resolves with
\* no record returns isError false with a message.
C9_SearchErrorIffRejected ==
  handler \in {"handleSearchAccounts", "handleSearchContacts"} =>
    /\ pc # "threw"
    /\ pc = "returned" =>
         /\ result.isError <=> Rejected(calls)
         /\ (/\ ~Rejected(calls)
             /\ handler = "handleSearchAccounts" => accounts = <<>>
             /\ handler = "handleSearchContacts" => contacts = <<>>)
            => ~result.isError /\ result.text.kind = "message"

C9_Witness ==
  /\ handler = "handleSearchAccounts"
  /\ pc = "returned"
  /\ ~Rejected(calls)
  /\ accounts = <<>>
  /\ ~result.isError

\* C10: a guided insert of a Case sends no caller-supplied record to create:
\* the only DML call it issues is one create, after the confirmation, whose
\* payload is the one-element list of the accumulated record, whatever the
\* records argument holds.
C10_GuidedInsertSendsOnlyFlowRecord ==
  GuidedInsert =>
    /\ Cardinality(DMLCalls) <= 1
    /\ \A i \in DMLCalls :
         /\ calls[i].kind = "create"
         /\ calls[i].object = "Case"
         /\ calls[i].payload = <<caseRecord>>
         /\ \A j \in 1..Len(args.records) :
              \A m \in 1..Len(calls[i].payload) : calls[i].payload[m] # args.records[j]
    /\ (last.prompt = "confirm" /\ last.line \in YesAnswers =>
          Cardinality(DMLCalls) = 1)

C10_Witness ==
  /\ GuidedInsert
  /\ Len(args.records) = 2
  /\ pc = "returned"
  /\ Cardinality(DMLCalls) = 1
  /\ calls[Len(calls)].payload = <<caseRecord>>

\* handleGetPicklistValues has returned after describe() resolved.
PicklistAnswered ==
  /\ handler = "handleGetPicklistValues"
  /\ pc = "returned"
  /\ ~Rejected(calls)

\* C11: for a picklist field of Case with values v1..vn the handler returns
\* isError false and exactly n lines in schema order, line i carrying the
\* number i, the label of vi and the default mark exactly when vi has
\* defaultValue set; for a name that is no field of Case, or a field that is
\* no picklist, it returns isError true.
C11_PicklistLinesFollowSchema ==
  PicklistAnswered =>
    LET fieldName == args.fieldName
    IN  IF HasField(caseDescribe, fieldName)
           /\ FieldNamed(caseDescribe, fieldName).type = "picklist"
        THEN LET values == FieldNamed(caseDescribe, fieldName).picklistValues
             IN  /\ result.isError = FALSE
                 /\ result.text.kind = "picklist"
                 /\ Len(result.text.lines) = Len(values)
                 /\ \A i \in 1..Len(values) :
                      /\ result.text.lines[i].index = i
                      /\ result.text.lines[i].label = values[i].label
                      /\ result.text.lines[i].default = values[i].defaultValue
        ELSE result.isError = TRUE

\* The picklist of Origin was asked for: two lines, the second one marked
\* as the default and the first one not.
C11_Witness ==
  /\ PicklistAnswered
  /\ args.fieldName = "Origin"
  /\ caseDescribe = SchemaStandard
  /\ result.isError = FALSE
  /\ Len(result.text.lines) = MaxChoices
  /\ result.text.lines[MaxChoices].default
  /\ ~result.text.lines[1].default

\* The positions of the guided flow at which a prompt waits for its line.
PromptPositions ==
  {"accountSearch", "accountSelect", "contactSelect", "webEmail", "webName",
   "subject", "description", "origin", "status", "priority", "refSearch",
   "refSelect", "picklist", "scalar", "confirm"}

\* The positions at which a remote call of the guided insert is awaited.
CallPositions == {"describe", "findAccounts", "findContacts", "findRef", "dml"}

\* The calls in flight.
InFlight == {i \in 1..Len(calls) : calls[i].state = "pending"}

\* The place of a position in the order of the steps; the prompts and the
\* find of the loop over the remaining required fields share one place.
StepOf(p) ==
  CASE p = "describe" -> 0
    [] p = "accountSearch" -> 1
    [] p = "findAccounts" -> 2
    [] p = "accountSelect" -> 3
    [] p = "findContacts" -> 4
    [] p = "contactSelect" -> 5
    [] p = "webEmail" -> 6
    [] p = "webName" -> 7
    [] p = "subject" -> 8
    [] p = "description" -> 9
    [] p = "origin" -> 10
    [] p = "status" -> 11
    [] p = "priority" -> 12
    [] p \in {"refSearch", "findRef", "refSelect", "picklist", "scalar"} -> 13
    [] p = "confirm" -> 14
    [] p = "dml" -> 15
    [] OTHER -> 16

\* One suspension at a time: while a prompt is pending no call is in
\* flight, and while a call is awaited it is the only one in flight.
OneAwaitAtATime ==
  GuidedInsert =>
    /\ pc \in PromptPositions => InFlight = {}
    /\ pc \in CallPositions => InFlight = {Len(calls)}
    /\ pc \in PromptPositions \cup CallPositions \cup {"returned", "threw"}

\* A step of the flow never leads back to an earlier step, and the loop
\* over the required fields never goes back to an earlier field.
StepsInOrder ==
  GuidedInsert =>
    /\ StepOf(pc') >= StepOf(pc)
    /\ (StepOf(pc) = 13 /\ StepOf(pc') = 13) => fieldIdx' >= fieldIdx

\* C12: within one guided flow prompts and remote calls are strictly
\* sequential (no call in flight while a prompt is pending, never two calls
\* in flight) and the steps come in the fixed order account search, account
\* selection, contact selection, web email, web name, subject, description,
\* origin, status, priority, remaining required fields, confirmation,
\* create: no step is followed by an earlier one.
C12_SequentialInFixedOrder == []OneAwaitAtATime /\ [][StepsInOrder]_vars

\* The create call is awaited after a flow that went through the web
\* contact prompts, the subject and both required fields of the loop.
C12_Witness ==
  /\ GuidedInsert
  /\ pc = "dml"
  /\ InFlight = {Len(calls)}
  /\ {"AccountId", "SuppliedEmail", "SuppliedName", "Subject", "Product__c",
      "AssetId"} \subseteq DOMAIN caseRecord
  /\ Len(calls) = 5

\* The prompts answered so far, over all flows running side by side.
PromptsAnswered ==
  Cardinality({fk \in Flows \X (1..(2 * NumFlows)) : fk[2] <= flows[fk[1]].answered})

\* The flows whose step or accumulated record a transition changes.
Advanced ==
  {f \in Flows : \/ flows'[f].pc # flows[f].pc
                 \/ flows'[f].caseRecord # flows[f].caseRecord}

\* C13: with two guided flows in progress, a line of input answers the
\* pending prompt of exactly one flow (as many prompts were answered as
\* lines were read), and no transition, the arrival of a line included,
\* advances the step or changes the accumulated record of more than one
\* flow.
C13_LineAnswersOneFlow ==
  /\ [](PromptsAnswered = stdin.chunks)
  /\ [][Cardinality(Advanced) <= 1]_vars

\* The guided flow has returned its record to handleDMLRecords: the
\* confirmation was given and the create call was issued with the record.
FlowReturned ==
  /\ GuidedInsert
  /\ last.prompt = "confirm"
  /\ DMLCalls # {}

\* C14: whenever the guided flow returns a record, every required field of
\* Case (not nillable, not defaulted on create, createable, not CaseNumber)
\* has a defined value in it, the required fields named Origin, Status,
\* Priority, ContactId and Subject included.
C14_RequiredFieldsDefined ==
  FlowReturned =>
    \A i \in 1..Len(RequiredFields(caseDescribe)) :
      RequiredFields(caseDescribe)[i].name \in DOMAIN caseRecord

\* The account find of the guided flow (the second call of the invocation)
\* has resolved.
AccountsFound ==
  /\ GuidedInsert
  /\ Len(calls) >= 2
  /\ calls[2].state = "resolved"

\* What holds of the first step once the account find has resolved.
AccountStepOutcome ==
  AccountsFound =>
    /\ Len(accounts) = 0 =>
         /\ pc = "threw"
         /\ Len(calls) = 2
         /\ last.prompt = "accountSearch"
    /\ Len(accounts) = 1 =>
         /\ pc # "accountSelect"
         /\ last.prompt # "accountSelect"
         /\ "AccountId" \notin DOMAIN picked
         /\ caseRecord["AccountId"] = accounts[1].Id
    /\ Len(accounts) >= 2 =>
         /\ pc = "accountSelect" => Len(calls) = 2
         /\ Len(calls) >= 3 =>
              /\ calls[3].kind = "find"
              /\ calls[3].object = "Contact"
              /\ calls[3].payload = <<caseRecord["AccountId"]>>
              /\ "AccountId" \in DOMAIN picked

\* The account selection prompt is answered once: its answer leads to the
\* contact lookup or aborts, never to the same prompt again.
AccountSelectOnce ==
  (GuidedInsert /\ pc = "accountSelect") => pc' \in {"findContacts", "threw"}

\* C15: after the account search, zero records abort the flow with no
\* further prompt or remote call; exactly one record is selected without an
\* account-selection prompt; two or more records lead to exactly one
\* account-selection prompt, answered before the contact lookup is issued.
C15_AccountStep == []AccountStepOutcome /\ [][AccountSelectOnce]_vars

\* Two accounts were found and the second one was selected by the one
\* selection prompt; the contact lookup is in flight.
C15_Witness ==
  /\ AccountsFound
  /\ Len(accounts) = 2
  /\ pc = "findContacts"
  /\ picked["AccountId"].k = 2
  /\ Len(calls) = 3

\* The guided flow is over: it returned its record (the create call was
\* issued) or it threw.
FlowEnded == pc \in {"dml", "returned", "threw"}

\* A round of a web contact prompt: a blank answer leaves the flow at the
\* same prompt with the record unchanged, any other answer is stored and
\* ends the loop; neither aborts.
WebContactRound ==
  /\ (GuidedInsert /\ pc = "webEmail") =>
       IF Trim(last'.line) = <<>>
       THEN pc' = "webEmail" /\ caseRecord' = caseRecord
       ELSE pc' = "webName" /\ caseRecord'["SuppliedEmail"] = last'.line
  /\ (GuidedInsert /\ pc = "webName") =>
       IF Trim(last'.line) = <<>>
       THEN pc' = "webName" /\ caseRecord' = caseRecord
       ELSE /\ pc' \notin {"webEmail", "webName", "threw"}
            /\ caseRecord'["SuppliedName"] = last'.line

\* C16: the web email and web name prompts are repeated as long as the
\* answer is blank and are never ended by an abort; and when every prompt
\* is eventually answered, each of the two eventually with an answer that
\* is not blank, every guided flow that was started eventually ends, by
\* returning its record or by throwing.
C16_WebContactLoopsAndFlowEnds ==
  /\ [][WebContactRound]_vars
  /\ (GuidedInsert /\ pc = "describe") ~> FlowEnded

\* The web email prompt was answered with a blank line and is pending
\* again, nothing stored.
C16_Witness ==
  /\ GuidedInsert
  /\ pc = "webEmail"
  /\ last.prompt = "webEmail"
  /\ last.line = <<>>
  /\ "SuppliedEmail" \notin DOMAIN caseRecord

\* The confirmation prompt of a guided insert is pending.
AtConfirmation == GuidedInsert /\ pc = "confirm"

\* The part of a record under the given keys.
Restrict(rec, keys) == [k \in DOMAIN rec \cap keys |-> rec[k]]

\* The subject prompt stores its answer; the description prompt stores its
\* answer exactly when it is not blank; no later step touches either key.
SubjectDescriptionSteps ==
  GuidedInsert =>
    /\ pc = "subject" =>
         /\ last'.prompt = "subject"
         /\ caseRecord' = Put(caseRecord, "Subject", last'.line)
    /\ pc = "description" =>
         /\ last'.prompt = "description"
         /\ IF Trim(last'.line) = <<>>
            THEN "Description" \notin DOMAIN caseRecord'
            ELSE /\ "Description" \in DOMAIN caseRecord'
                 /\ caseRecord'["Description"] = last'.line
    /\ StepOf(pc) > StepOf("description") =>
         Restrict(caseRecord', {"Subject", "Description"})
           = Restrict(caseRecord, {"Subject", "Description"})

\* Every flow that gets to the confirmation went through the subject and
\* the description prompt.
SubjectAtConfirmation ==
  AtConfirmation => "Subject" \in DOMAIN caseRecord

\* C17: at the confirmation prompt the accumulated record holds Subject
\* with the user's answer, and holds Description exactly when the answer
\* to the description prompt was not blank (empty or white space only).
C17_SubjectAndDescription ==
  [](SubjectAtConfirmation) /\ [][SubjectDescriptionSteps]_vars

\* The confirmation is pending after a subject "a" and a blank description.
C17_Witness ==
  /\ AtConfirmation
  /\ caseRecord["Subject"] = <<"a">>
  /\ "Description" \notin DOMAIN caseRecord

\* handleCreateCase was invoked.
CreatingCase == handler = "handleCreateCase"

\* C18: handleCreateCase issues exactly one remote call, a create on Case
\* of the record it prepared; it returns isError false exactly when that
\* call resolved with success true, isError true when it resolved with
\* success false or rejected; and it never throws.
C18_CreateCaseErrorIffNoSuccess ==
  CreatingCase =>
    /\ Len(calls) = 1
    /\ calls[1].kind = "create"
    /\ calls[1].object = "Case"
    /\ calls[1].payload = caseRecord
    /\ pc \in {"createCase", "returned"}
    /\ pc = "returned" =>
         /\ calls[1].state \in {"resolved", "rejected"}
         /\ result.isError =
              ~(calls[1].state = "resolved" /\ calls[1].response.results[1].success)

\* The create resolved with success false and a single error object: the
\* handler returned isError true.
C18_Witness ==
  /\ CreatingCase
  /\ pc = "returned"
  /\ calls[1].state = "resolved"
  /\ ~calls[1].response.results[1].success
  /\ calls[1].response.results[1].errors.shape = "single"
  /\ result.isError

\* An invocation of the rejecting variant.
Rejecting == handler = "handleDMLRecordsRejecting"

\* A call as it was issued, whatever became of it.
AsIssued(call) == [call EXCEPT !.state = "pending", !.response = <<>>]

\* C19: on insert of Case the rejecting variant returns isError true with
\* no remote call and no prompt; on every other operation, object, records
\* and externalIdField it does what the guided variant's code does: it
\* throws the same error before any call, or issues the same single call
\* and then returns the same report for the same response, or throws when
\* the call rejects.
C19_VariantsDifferOnlyOnCaseInsert ==
  Rejecting =>
    IF args.operation = "insert" /\ args.objectName = "Case"
    THEN /\ pc = "returned"
         /\ result.isError = TRUE
         /\ calls = <<>>
         /\ last = NoAnswer
    ELSE LET d == DMLSwitch(args)
         IN  /\ d.kind \in {"throw", "call"}
             /\ d.kind = "throw" =>
                  /\ pc = "threw"
                  /\ error = d.message
                  /\ calls = <<>>
             /\ d.kind = "call" =>
                  /\ Len(calls) = 1
                  /\ AsIssued(calls[1]) = d.call
                  /\ pc \in {"dmlTs", "returned", "threw"}
                  /\ pc = "returned" =>
                       /\ calls[1].state = "resolved"
                       /\ result = FormatDMLResults(args.operation, calls[1].response)
                  /\ pc = "threw" =>
                       /\ calls[1].state = "rejected"
                       /\ error = "remote error"

\* The rejecting variant has returned the report of a delete of two
\* records, the second of which failed.
C19_Witness ==
  /\ Rejecting
  /\ args.operation = "delete"
  /\ Len(args.records) = 2
  /\ pc = "returned"
  /\ calls[1].payload = <<Id("Rec", 1), Id("Rec", 2)>>
  /\ result.text.successful = 1
  /\ result.text.failed = 1

\* The fields the accumulated record holds.
Holds(name) == name \in DOMAIN caseRecord

C20_WitnessWebContact ==
  /\ AtConfirmation
  /\ Len(contacts) > 0
  /\ ~Holds("ContactId")
  /\ caseRecord["SuppliedEmail"] = <<"a">>

====
